---- MODULE Spec2Model ----
(***************************************************************************)
(* State-machine model of the voice-chat front end in                      *)
(* src/client/src/components/ChatGPTStyleVoiceUI.tsx: the session identity *)
(* hook (useThreadAndUserId), the transcript aggregator (MessagePane) and  *)
(* the connection / mic-mode controller (MicDock).                         *)
(*                                                                         *)
(* One action is one browser task: an event handler, followed by the       *)
(* re-render it causes and the React effects whose dependencies changed.   *)
(* The transport client (PipecatClient) is an opaque collaborator: its     *)
(* state changes and events are nondeterministic environment actions.      *)
(***************************************************************************)
EXTENDS Naturals, Sequences, FiniteSets

VARIABLES
    state,                \* usePipecatClientTransportState()
    micEnabled,           \* usePipecatClientMicControl().isMicEnabled
    inflight,             \* startOrConnect calls awaiting the client, not yet established
    established,          \* startOrConnect calls whose await is about to resolve
    abandoned,            \* startOrConnect calls still unsettled when the transport went back to disconnected
    botTalking,           \* MicDock useState
    connecting,           \* MicDock useState
    connectedOnce,        \* MicDock useState
    mode,                 \* MicDock useState: "push" | "handsfree"
    autoDuck,             \* MicDock useState
    pressedRef,           \* MicDock useRef: pressedRef.current
    timers,               \* pending setTimeout(..., 120) callbacks of onRelease
    msgs,                 \* MessagePane useState: ChatMsg[]
    botStream,            \* MessagePane useState: streamed fragments, in order
    isWaitingForResponse, \* MessagePane useState
    threadId,             \* useThreadAndUserId useState
    userId,               \* useThreadAndUserId useState
    uuids,                \* number of identifiers crypto.randomUUID() has issued to the hook
    stored,               \* localStorage's "voice-thread-id" and "voice-user-id"; 0 is null
    storageOk,            \* whether calls of localStorage currently succeed rather than throw
    threw                 \* whether a handler has ended by an uncaught exception

transportVars == <<state, micEnabled, inflight, established, abandoned>>
dockVars      == <<botTalking, connecting, connectedOnce, mode, autoDuck, pressedRef, timers>>
paneVars      == <<msgs, botStream, isWaitingForResponse>>
idVars        == <<threadId, userId, uuids, stored>>
envVars       == <<storageOk, threw>>
vars          == <<transportVars, dockVars, paneVars, idVars, envVars>>

----------------------------------------------------------------------------
(* Bounds *)
MaxMsgs     == 3   \* longest entry list explored
MaxStream   == 1   \* most fragments held in the streaming buffer
MaxTimers   == 2   \* most release timers pending at once
MaxAttempts == 2   \* most unsettled startOrConnect calls at once
MaxUuids    == 6   \* identifiers the identity hook may draw

----------------------------------------------------------------------------
(* Values *)
Undefined == "undefined"               \* a missing field / JS undefined
Texts     == {"hi", "hi there"}        \* transcript texts sent by the transport
Fragments == {"Hello"}                 \* bot text fragments sent by the transport
BotTexts  == {"Hello there"}           \* final bot texts sent by the transport
EphemeralUserId == "ephemeral-user"    \* the fixed id of the partial user entry
RandomId  == "uuid"                    \* an entry id from crypto.randomUUID(); entry ids are never compared

\* JS `a || b` on values that are either Undefined or a non-empty string
Or(a, b) == IF a # Undefined THEN a ELSE b

ChatMsg(id, role, text, ephemeral, functionName, functionArgs) ==
    [id |-> id, role |-> role, text |-> text, ephemeral |-> ephemeral,
     functionName |-> functionName, functionArgs |-> functionArgs]

isConnectedState(s) == s \in {"ready", "connected"}

\* The transport delivers transcript and speaking events while a session is up
\* or being torn down.
sessionLive == isConnectedState(state) \/ state = "disconnecting"

\* a filter that drops nothing
Filter_KeepsEphemeral(list, role) == list

RECURSIVE Filter(_, _)
\* Array.prototype.filter keeping the entries that are not ephemeral entries of `role`
Filter(list, role) ==
    IF list = << >> THEN << >>
    ELSE LET h == Head(list)
             t == Filter(Tail(list), role)
         IN  IF h.role = role /\ h.ephemeral THEN t ELSE <<h>> \o t

----------------------------------------------------------------------------
(* MicDock effects.  Each runs after a render in which one of its          *)
(* dependencies changed; `mic` is the mic state before the effect.         *)

\* the hands-free effect doing nothing
HandsFreeEffect_NoOp(md, st, mic) == mic

\* "Hands-free: keep mic open when connected"
HandsFreeEffect(md, st, mic) ==
    IF md = "handsfree" /\ isConnectedState(st) THEN TRUE ELSE mic

\* AutoDuckEffect without its `mode !== "handsfree"` early return
AutoDuckEffect_AnyMode(bt, ad, md, st, mic) ==
    IF ~isConnectedState(st) THEN mic
    ELSE IF ~ad THEN mic
    ELSE ~bt

\* "Auto-duck mic when bot speaks"
AutoDuckEffect(bt, ad, md, st, mic) ==
    IF md # "handsfree" \/ ~isConnectedState(st) THEN mic
    ELSE IF ~ad THEN mic
    ELSE ~bt

\* The mic state after the render that follows a handler: mic0 is the mic
\* state the handler left, the other arguments the new values of the state.
MicAfterEffects(mic0, md, ad, bt, st) ==
    LET connChanged == isConnectedState(st) # isConnectedState(state)
        m1 == IF md # mode \/ connChanged
              THEN HandsFreeEffect(md, st, mic0) ELSE mic0
    IN  IF bt # botTalking \/ ad # autoDuck \/ md # mode \/ connChanged
        THEN AutoDuckEffect(bt, ad, md, st, m1) ELSE m1

\* the connecting watcher testing READY only
ConnectingAfterEffects_ReadyOnly(c0, st) ==
    IF st # state /\ st = "ready" THEN FALSE ELSE c0

\* "Clear connecting when transport settles to any terminal-ish state"
ConnectingAfterEffects(c0, st) ==
    IF st # state /\ st \in {"ready", "connected", "disconnected"} THEN FALSE ELSE c0

----------------------------------------------------------------------------
\* the page before its first render, apart from the session identity
InitPage ==
    /\ state = "disconnected"
    /\ micEnabled = TRUE
    /\ inflight = 0
    /\ established = 0
    /\ abandoned = 0
    /\ botTalking = FALSE
    /\ connecting = FALSE
    /\ connectedOnce = FALSE
    /\ mode = "push"
    /\ autoDuck = FALSE
    /\ pressedRef = FALSE
    /\ timers = 0
    /\ msgs = << >>
    /\ botStream = << >>
    /\ isWaitingForResponse = FALSE
    /\ threw = FALSE

\* the page after its first render in a browser whose storage works and was
\* empty: the two identifiers are fresh and stored
Init ==
    /\ InitPage
    /\ threadId = 1
    /\ userId = 2
    /\ uuids = 2
    /\ stored = [thread |-> 1, user |-> 2]
    /\ storageOk = TRUE

\* the page before its first render: the identifiers are not yet initialised
\* (0), an earlier visit may have stored either identifier, and storage may be
\* unavailable
InitLoad ==
    /\ InitPage
    /\ threadId = 0
    /\ userId = 0
    /\ uuids = 2
    /\ stored \in [thread : {0, 1}, user : {0, 2}]
    /\ storageOk \in BOOLEAN

----------------------------------------------------------------------------
(* Transport client (opaque collaborator) *)

\* MessagePane.clearMessages
clearMessages ==
    /\ msgs' = << >>
    /\ botStream' = << >>
    /\ isWaitingForResponse' = FALSE

\* TransportStateChange whose clear-on-connect effect tests READY only
TransportStateChange_ReadyOnly(st) ==
    /\ state' = st
    /\ connecting' = ConnectingAfterEffects(connecting, st)
    /\ micEnabled' = MicAfterEffects(micEnabled, mode, autoDuck, botTalking, st)
    /\ IF st # state /\ st = "ready"
       THEN clearMessages
       ELSE UNCHANGED paneVars

\* The render after the transport state became st: the MessagePane
\* clear-on-connect effect and the MicDock effects that depend on the state.
TransportStateChange(st) ==
    /\ state' = st
    /\ connecting' = ConnectingAfterEffects(connecting, st)
    /\ micEnabled' = MicAfterEffects(micEnabled, mode, autoDuck, botTalking, st)
    /\ IF st # state /\ isConnectedState(st)
       THEN clearMessages
       ELSE UNCHANGED paneVars

\* the transport reports CONNECTED
TransportConnected ==
    /\ state = "connecting"
    /\ TransportStateChange("connected")
    /\ UNCHANGED <<inflight, established, abandoned, botTalking, connectedOnce, mode, autoDuck,
                   pressedRef, timers, idVars, envVars>>

\* the transport reports READY: the connect call that opened the session can resolve
TransportReady ==
    /\ state = "connected"
    /\ TransportStateChange("ready")
    /\ IF inflight > 0
       THEN inflight' = inflight - 1 /\ established' = established + 1
       ELSE UNCHANGED <<inflight, established>>
    /\ UNCHANGED <<abandoned, botTalking, connectedOnce, mode, autoDuck, pressedRef, timers,
                   idVars, envVars>>

\* the transport reports DISCONNECTED (failed attempt or dropped session): the
\* calls it had not yet answered will be rejected
TransportDisconnected ==
    /\ state # "disconnected"
    /\ TransportStateChange("disconnected")
    /\ inflight' = 0
    /\ abandoned' = abandoned + inflight
    /\ UNCHANGED <<established, botTalking, connectedOnce, mode, autoDuck,
                   pressedRef, timers, idVars, envVars>>

----------------------------------------------------------------------------
(* MicDock *)

\* The client calls startOrConnect makes for the configured
\* NEXT_PUBLIC_PIPECAT_START_ENDPOINT and NEXT_PUBLIC_PIPECAT_OFFER_URL
ClientCalls(startEndpoint, offerUrl) ==
    IF startEndpoint # Undefined THEN <<"startBotAndConnect">>
    ELSE IF offerUrl # Undefined THEN <<"connect">>
    ELSE <<"startBotAndConnect">>

\* MicDock.startOrConnect up to its await: setConnecting(true) and the call
\* of pcClient.startBotAndConnect / pcClient.connect
startOrConnect ==
    /\ inflight + established + abandoned < MaxAttempts
    /\ \E startEndpoint \in {Undefined, "/start"}, offerUrl \in {Undefined, "/offer"} :
           inflight' = inflight + Len(ClientCalls(startEndpoint, offerUrl))
    /\ state' = IF state = "disconnected" THEN "connecting" ELSE state
    /\ connecting' = TRUE
    /\ UNCHANGED <<micEnabled, established, abandoned, botTalking, connectedOnce, mode, autoDuck,
                   pressedRef, timers, paneVars, idVars, envVars>>

\* startOrConnect after its await resolved: setConnectedOnce(true), finally setConnecting(false)
SettleOk ==
    /\ established > 0
    /\ established' = established - 1
    /\ connectedOnce' = TRUE
    /\ connecting' = FALSE
    /\ UNCHANGED <<state, micEnabled, inflight, abandoned, botTalking, mode, autoDuck,
                   pressedRef, timers, paneVars, idVars, envVars>>

\* startOrConnect after its await threw: catch, finally setConnecting(false)
Rejected ==
    /\ connecting' = FALSE
    /\ UNCHANGED <<state, micEnabled, established, botTalking, connectedOnce, mode,
                   autoDuck, pressedRef, timers, paneVars, idVars, envVars>>

\* a call is rejected while the transport stays up: the client refuses or
\* fails a call made while another call is outstanding
SettleFail ==
    /\ inflight > 0
    /\ inflight + established > 1
    /\ inflight' = inflight - 1
    /\ UNCHANGED abandoned
    /\ Rejected

\* a call is rejected after the transport went back to disconnected
SettleAbandoned ==
    /\ abandoned > 0
    /\ abandoned' = abandoned - 1
    /\ UNCHANGED inflight
    /\ Rejected

\* pcClient.disconnect(): a client that is not disconnected starts tearing down
disconnect ==
    TransportStateChange(IF state = "disconnected" THEN "disconnected" ELSE "disconnecting")

\* the Connect / Disconnect button (disabled while !isConnectedState && connecting)
ConnectButton ==
    /\ ~(~isConnectedState(state) /\ connecting)
    /\ IF isConnectedState(state)
       THEN /\ disconnect
            /\ UNCHANGED <<inflight, established, abandoned, botTalking, connectedOnce, mode,
                           autoDuck, pressedRef, timers, idVars, envVars>>
       ELSE startOrConnect

\* MicDock.onPress (mouse down / touch start on the mic button)
onPress ==
    IF ~isConnectedState(state)
    THEN startOrConnect
    ELSE IF mode = "handsfree"
    THEN UNCHANGED vars
    ELSE /\ pressedRef' = TRUE
         /\ micEnabled' = TRUE
         /\ UNCHANGED <<state, inflight, established, abandoned, botTalking, connecting,
                        connectedOnce, mode, autoDuck, timers, paneVars, idVars, envVars>>

\* MicDock.onRelease (mouse up / mouse leave / touch end on the mic button)
onRelease ==
    IF mode = "handsfree"
    THEN UNCHANGED vars
    ELSE /\ timers < MaxTimers
         /\ pressedRef' = FALSE
         /\ timers' = timers + 1
         /\ UNCHANGED <<transportVars, botTalking, connecting, connectedOnce, mode,
                        autoDuck, paneVars, idVars, envVars>>

\* the callback onRelease gave to setTimeout, 120 ms later
ReleaseTimer ==
    /\ timers > 0
    /\ timers' = timers - 1
    /\ micEnabled' = IF ~pressedRef THEN FALSE ELSE micEnabled
    /\ UNCHANGED <<state, inflight, established, abandoned, botTalking, connecting, connectedOnce,
                   mode, autoDuck, pressedRef, paneVars, idVars, envVars>>

\* the mic button's onClick
onClick ==
    IF ~isConnectedState(state)
    THEN startOrConnect
    ELSE /\ micEnabled' = ~micEnabled
         /\ UNCHANGED <<state, inflight, established, abandoned, dockVars, paneVars, idVars, envVars>>

\* the Push / Hands-free buttons: setMode(md), then the effects on [mode]
setMode(md) ==
    /\ mode' = md
    /\ micEnabled' = MicAfterEffects(micEnabled, md, autoDuck, botTalking, state)
    /\ UNCHANGED <<state, inflight, established, abandoned, botTalking, connecting, connectedOnce,
                   autoDuck, pressedRef, timers, paneVars, idVars, envVars>>

\* the "Auto-mute on bot" checkbox: setAutoDuck(b), then the effect on [autoDuck]
setAutoDuck(b) ==
    /\ autoDuck' = b
    /\ micEnabled' = MicAfterEffects(micEnabled, mode, b, botTalking, state)
    /\ UNCHANGED <<state, inflight, established, abandoned, botTalking, connecting, connectedOnce,
                   mode, pressedRef, timers, paneVars, idVars, envVars>>

\* the BotStartedSpeaking / BotStoppedSpeaking handlers: setBotTalking(b),
\* then the effect on [botTalking]
setBotTalking(b) ==
    /\ sessionLive
    /\ botTalking' = b
    /\ micEnabled' = MicAfterEffects(micEnabled, mode, autoDuck, b, state)
    /\ UNCHANGED <<state, inflight, established, abandoned, connecting, connectedOnce, mode,
                   autoDuck, pressedRef, timers, paneVars, idVars, envVars>>

BotStartedSpeaking == setBotTalking(TRUE)

BotStoppedSpeaking == setBotTalking(FALSE)

NextDock ==
    \/ TransportConnected
    \/ TransportReady
    \/ TransportDisconnected
    \/ SettleOk
    \/ SettleFail
    \/ SettleAbandoned
    \/ ConnectButton
    \/ onPress
    \/ onRelease
    \/ ReleaseTimer
    \/ onClick
    \/ \E md \in {"push", "handsfree"} : setMode(md)
    \/ \E b \in BOOLEAN : setAutoDuck(b)
    \/ BotStartedSpeaking
    \/ BotStoppedSpeaking

SpecDock == Init /\ [][NextDock]_vars

----------------------------------------------------------------------------
(* MessagePane: the transcript aggregator *)

\* The payloads of RTVIEvent.LLMFunctionCall the transport may deliver
FunctionCallData ==
    { [function_name |-> "f", name |-> Undefined, function |-> Undefined,
       args |-> "x", arguments |-> Undefined],
      [function_name |-> Undefined, name |-> "g", function |-> Undefined,
       args |-> Undefined, arguments |-> "y"],
      [function_name |-> Undefined, name |-> Undefined, function |-> "h",
       args |-> Undefined, arguments |-> Undefined],
      [function_name |-> Undefined, name |-> Undefined, function |-> Undefined,
       args |-> Undefined, arguments |-> Undefined] }

\* The payloads of RTVIEvent.Error: msg?.data?.message
ErrorMessages == {Undefined, "boom"}

\* RTVIEvent.UserTranscript handler
UserTranscript(text, final) ==
    /\ sessionLive
    /\ Len(Filter(msgs, "user")) < MaxMsgs
    /\ LET withoutEphemeral == Filter(msgs, "user")
       IN  IF final
           THEN /\ isWaitingForResponse' = TRUE
                /\ msgs' = Append(withoutEphemeral,
                       ChatMsg(RandomId, "user", <<text>>, FALSE, Undefined, Undefined))
           ELSE /\ isWaitingForResponse' = isWaitingForResponse
                /\ msgs' = Append(withoutEphemeral,
                       ChatMsg(EphemeralUserId, "user", <<text>>, TRUE, Undefined, Undefined))
    /\ UNCHANGED <<botStream, transportVars, dockVars, idVars, envVars>>

\* first RTVIEvent.LLMFunctionCall handler ("Event1"): what it appends
FunctionCall1(data) ==
    <<ChatMsg(RandomId, "function", <<"Calling function: ", data.function_name>>,
              FALSE, data.function_name, data.args)>>

\* second RTVIEvent.LLMFunctionCall handler ("Event2"): what it appends
FunctionCall2(data) ==
    LET functionName == Or(data.name, data.function_name)
        functionArgs == Or(data.args, data.arguments)
    IN  IF functionName # Undefined
        THEN <<ChatMsg(RandomId, "function", <<"Calling function: ", functionName>>,
                       FALSE, functionName, functionArgs)>>
        ELSE << >>

\* third RTVIEvent.LLMFunctionCall handler ("Event3"): what it appends
FunctionCall3(data) ==
    LET functionName == Or(Or(Or(data.function_name, data.name), data.function), "unknown")
    IN  <<ChatMsg(RandomId, "function", <<"Calling function: ", functionName>>,
                  FALSE, functionName, Or(data.args, data.arguments))>>

\* One RTVIEvent.LLMFunctionCall event: the three registered handlers run in
\* registration order, each on the same payload.
LLMFunctionCall(data) ==
    /\ sessionLive
    /\ Len(msgs) + 3 <= MaxMsgs
    /\ isWaitingForResponse' = FALSE
    /\ msgs' = msgs \o FunctionCall1(data) \o FunctionCall2(data) \o FunctionCall3(data)
    /\ UNCHANGED <<botStream, transportVars, dockVars, idVars, envVars>>

\* BotLlmText without its setIsWaitingForResponse(false)
BotLlmText_KeepsWaiting(text) ==
    /\ sessionLive
    /\ Len(botStream) < MaxStream
    /\ isWaitingForResponse' = isWaitingForResponse
    /\ botStream' = Append(botStream, text)
    /\ UNCHANGED <<msgs, transportVars, dockVars, idVars, envVars>>

\* RTVIEvent.BotLlmText handler
BotLlmText(text) ==
    /\ sessionLive
    /\ Len(botStream) < MaxStream
    /\ isWaitingForResponse' = FALSE
    /\ botStream' = Append(botStream, text)
    /\ UNCHANGED <<msgs, transportVars, dockVars, idVars, envVars>>

\* BotTranscript without its setBotStream("")
BotTranscript_KeepsStream(text) ==
    /\ sessionLive
    /\ Len(msgs) < MaxMsgs
    /\ isWaitingForResponse' = FALSE
    /\ msgs' = Append(Filter(msgs, "assistant"),
                      ChatMsg(RandomId, "assistant", <<text>>, FALSE, Undefined, Undefined))
    /\ UNCHANGED <<botStream, transportVars, dockVars, idVars, envVars>>

\* RTVIEvent.BotTranscript handler
BotTranscript(text) ==
    /\ sessionLive
    /\ Len(msgs) < MaxMsgs
    /\ isWaitingForResponse' = FALSE
    /\ msgs' = Append(Filter(msgs, "assistant"),
                      ChatMsg(RandomId, "assistant", <<text>>, FALSE, Undefined, Undefined))
    /\ botStream' = << >>
    /\ UNCHANGED <<transportVars, dockVars, idVars, envVars>>

\* RTVIEvent.Error: the MessagePane handler and the MicDock handler
ErrorEvent(message) ==
    /\ Len(msgs) < MaxMsgs
    /\ isWaitingForResponse' = FALSE
    /\ msgs' = Append(msgs, ChatMsg(RandomId, "system",
                      <<"Error: ", Or(message, "Unknown error")>>, FALSE, Undefined, Undefined))
    /\ connecting' = FALSE
    /\ UNCHANGED <<botStream, transportVars, botTalking, connectedOnce, mode, autoDuck,
                   pressedRef, timers, idVars, envVars>>

----------------------------------------------------------------------------
(* Session identity and "new conversation" *)

\* useThreadAndUserId.startNewConversation's two identifiers: crypto.randomUUID()
\* never returns an identifier it returned before
startNewConversation ==
    /\ threadId' = uuids + 1
    /\ userId' = uuids + 2
    /\ uuids' = uuids + 2
    /\ stored' = [thread |-> uuids + 1, user |-> uuids + 2]

\* The first render of useThreadAndUserId in the browser: the two useState
\* initializers.  localStorage.getItem and setItem are not guarded: when
\* storage throws, the first initializer throws and the render fails.
useThreadAndUserId ==
    /\ threadId = 0
    /\ ~threw
    /\ IF ~storageOk
       THEN /\ threw' = TRUE
            /\ UNCHANGED <<transportVars, dockVars, paneVars, idVars, storageOk>>
       ELSE /\ threadId' = IF stored.thread # 0 THEN stored.thread ELSE uuids + 1
            /\ LET issued == IF stored.thread # 0 THEN uuids ELSE uuids + 1
               IN  /\ userId' = IF stored.user # 0 THEN stored.user ELSE issued + 1
                   /\ uuids' = IF stored.user # 0 THEN issued ELSE issued + 1
            /\ stored' = [thread |-> threadId', user |-> userId']
            /\ UNCHANGED <<transportVars, dockVars, paneVars, envVars>>

\* AppShell.handleNewConversation.  localStorage.setItem is not guarded: when it
\* throws, startNewConversation throws before any state is set and the handler
\* ends there, by an uncaught exception.  Otherwise the identifiers are replaced, the client is
\* disconnected, and AppShell re-renders with a new handleNewConversation, which
\* re-runs the MessagePane effect that calls clearMessages.  (The handler is
\* passed to TopBar and MessagePane; no control of the page invokes it.)
handleNewConversation ==
    /\ uuids + 2 <= MaxUuids
    /\ IF ~storageOk
       THEN /\ threw' = TRUE
            /\ UNCHANGED <<transportVars, dockVars, paneVars, idVars, storageOk>>
       ELSE /\ startNewConversation
            /\ LET st == IF state = "disconnected" THEN "disconnected" ELSE "disconnecting"
               IN  /\ state' = st
                   /\ connecting' = ConnectingAfterEffects(connecting, st)
                   /\ micEnabled' = MicAfterEffects(micEnabled, mode, autoDuck, botTalking, st)
            /\ clearMessages
            /\ UNCHANGED <<inflight, established, abandoned, botTalking, connectedOnce, mode,
                           autoDuck, pressedRef, timers, envVars>>

\* browser storage starts or stops refusing writes (quota, privacy mode)
StorageChange ==
    /\ storageOk' = ~storageOk
    /\ UNCHANGED <<transportVars, dockVars, paneVars, idVars, threw>>

NextPane ==
    \/ TransportConnected
    \/ TransportReady
    \/ TransportDisconnected
    \/ SettleOk
    \/ SettleFail
    \/ SettleAbandoned
    \/ ConnectButton
    \/ \E text \in Texts, final \in BOOLEAN : UserTranscript(text, final)
    \/ \E data \in FunctionCallData : LLMFunctionCall(data)
    \/ \E text \in Fragments : BotLlmText(text)
    \/ \E text \in BotTexts : BotTranscript(text)
    \/ \E message \in ErrorMessages : ErrorEvent(message)

SpecPane == Init /\ [][NextPane]_vars

NextIdentity ==
    \/ NextPane
    \/ handleNewConversation
    \/ StorageChange

SpecIdentity == Init /\ [][NextIdentity]_vars

\* MicDock with the transport's Error events
NextController ==
    \/ NextDock
    \/ \E message \in ErrorMessages : ErrorEvent(message)

SpecController == Init /\ [][NextController]_vars

\* The first render and, once it succeeded, the session lifecycle
NextLoad ==
    \/ useThreadAndUserId
    \/ StorageChange
    \/ /\ threadId # 0
       /\ \/ handleNewConversation
          \/ ConnectButton
          \/ TransportConnected
          \/ TransportReady
          \/ TransportDisconnected
          \/ SettleOk
          \/ SettleAbandoned

SpecLoad == InitLoad /\ [][NextLoad]_vars

Next ==
    \/ NextDock
    \/ NextIdentity

Spec == Init /\ [][Next]_vars

----------------------------------------------------------------------------
(* Properties of the connection controller and the mic-mode state machine *)

\* C2: a connect request made while the controller is connecting or connected
\* starts no further transport connect call.
C2_NoSecondConnectCall ==
    [][(connecting \/ isConnectedState(state))
        => inflight' + established' <= inflight + established]_vars

\* C3: in hands-free mode with Auto-Duck on, while the phase is Ready/Connected,
\* the mic is enabled exactly when the bot is not speaking.
C3_AutoDuckFollowsBot ==
    (mode = "handsfree" /\ autoDuck /\ isConnectedState(state))
        => (micEnabled = ~botTalking)

\* C4: in push-to-talk mode, during a session, the mic is disabled whenever the
\* mic button is not held and no release-grace timer is pending.
C4_PushMicOnlyWhileHeld ==
    (mode = "push" /\ isConnectedState(state) /\ ~pressedRef /\ timers = 0)
        => ~micEnabled

\* C5: in hands-free mode with Auto-Duck off, the mic is enabled in every state
\* whose phase is Ready/Connected.
C5_HandsFreeMicOpen ==
    (mode = "handsfree" /\ ~autoDuck /\ isConnectedState(state)) => micEnabled

\* C10: in push-to-talk mode a BotStartedSpeaking or BotStoppedSpeaking event
\* leaves the mic state as it was, with Auto-Duck on or off, in any phase.
C10_PushMicIgnoresBot ==
    [][(mode = "push" /\ (BotStartedSpeaking \/ BotStoppedSpeaking))
        => micEnabled' = micEnabled]_vars

\* C10 case: push-to-talk, Auto-Duck on, in a session, the bot has started
\* speaking and the mic is still enabled.
C10_Witness ==
    mode = "push" /\ autoDuck /\ isConnectedState(state) /\ botTalking /\ micEnabled

----------------------------------------------------------------------------
(* Properties of the transcript aggregator and the session identity *)

\* the permanent entries of a role, in list order
Permanent(list, role) == SelectSeq(list, LAMBDA m : m.role = role /\ ~m.ephemeral)

\* the ephemeral entries of a role, in list order
Ephemeral(list, role) == SelectSeq(list, LAMBDA m : m.role = role /\ m.ephemeral)

\* the function-call entries, in list order
FunctionEntries(list) == SelectSeq(list, LAMBDA m : m.role = "function")

\* C1: one function-call event, whatever field names it uses, adds exactly one
\* function-call entry to the entry list.
C1_OneEntryPerFunctionCall ==
    [][\A data \in FunctionCallData :
          LLMFunctionCall(data)
              => Len(FunctionEntries(msgs')) = Len(FunctionEntries(msgs)) + 1]_vars

\* C6: only a final user transcript (or a reset of the list) changes the
\* permanent user entries, so partial user transcripts and interleaved bot,
\* function-call and error events add none; and from a list with no permanent
\* user entry the final user transcript leaves exactly one permanent user entry,
\* with the final text, and no ephemeral user entry.
C6_OnePermanentUserEntry ==
    [][/\ \A text \in Texts :
            (Permanent(msgs, "user") = << >> /\ UserTranscript(text, TRUE))
                => /\ Len(Permanent(msgs', "user")) = 1
                   /\ Permanent(msgs', "user")[1].text = <<text>>
                   /\ Ephemeral(msgs', "user") = << >>
       /\ Permanent(msgs', "user") # Permanent(msgs, "user")
                => (msgs' = << >> \/ \E text \in Texts : UserTranscript(text, TRUE))]_vars

\* C6 case: after a partial and then a final user transcript, with another
\* event's entry in between: a non-user entry, then the one permanent user
\* entry, no ephemeral entry left, waiting for the response.
C6_Witness ==
    /\ Len(msgs) = 2
    /\ msgs[1].role \in {"assistant", "system"}
    /\ msgs[2].role = "user" /\ ~msgs[2].ephemeral /\ msgs[2].text = <<"hi there">>
    /\ isWaitingForResponse

\* C7: only a BotTranscript event (or a reset of the list) changes the permanent
\* assistant entries, so bot text fragments and interleaved transcript events
\* add none; the BotTranscript event empties the streaming buffer and adds
\* exactly one permanent assistant entry, carrying the final text.
C7_OneAssistantEntryBufferEmpty ==
    [][/\ \A text \in BotTexts :
            BotTranscript(text)
                => /\ botStream' = << >>
                   /\ Len(Permanent(msgs', "assistant")) = Len(Permanent(msgs, "assistant")) + 1
                   /\ msgs'[Len(msgs')].role = "assistant"
                   /\ msgs'[Len(msgs')].text = <<text>>
                   /\ ~msgs'[Len(msgs')].ephemeral
       /\ Permanent(msgs', "assistant") # Permanent(msgs, "assistant")
                => (msgs' = << >> \/ \E text \in BotTexts : BotTranscript(text))]_vars

\* C7 case: a fragment was buffered, a user transcript came in between, and the
\* final bot transcript has been handled: buffer empty, assistant entry last.
C7_Witness ==
    /\ Len(msgs) = 2
    /\ msgs[1].role = "user"
    /\ msgs[2].role = "assistant" /\ msgs[2].text = <<"Hello there">>
    /\ botStream = << >>
    /\ ~isWaitingForResponse

\* C8: starting a new conversation always leaves an empty entry list, an empty
\* streaming buffer, no waiting indicator, and two identifiers that both differ
\* from the ones before.
C8_NewConversationResets ==
    [][handleNewConversation
          => /\ msgs' = << >>
             /\ botStream' = << >>
             /\ ~isWaitingForResponse'
             /\ threadId' # threadId
             /\ userId' # userId]_vars

\* C9: every change of the transport state into Ready or Connected empties the
\* entry list, the streaming buffer and the waiting indicator.
C9_ConnectClears ==
    [][(state' # state /\ isConnectedState(state'))
          => (msgs' = << >> /\ botStream' = << >> /\ ~isWaitingForResponse')]_vars

\* C9 case: a session has been up before, its entries, buffer and waiting
\* indicator are still there, and the next transition is into Connected.
C9_Witness ==
    /\ state = "connecting"
    /\ connectedOnce
    /\ Len(msgs) > 0
    /\ botStream # << >>
    /\ isWaitingForResponse

\* C11: the entry list holds at most one ephemeral entry per role, an ephemeral
\* user entry carries the fixed id, and no permanent entry of a role comes after
\* an ephemeral entry of that role (the final entry removed it).
C11_OneEphemeralPerRole ==
    /\ \A role \in {"user", "assistant", "system", "function"} :
           Len(Ephemeral(msgs, role)) <= 1
    /\ \A i \in 1..Len(msgs) :
           (msgs[i].ephemeral /\ msgs[i].role = "user") => msgs[i].id = EphemeralUserId
    /\ \A i \in 1..Len(msgs), j \in 1..Len(msgs) :
           (i < j /\ msgs[i].ephemeral) => ~(msgs[j].role = msgs[i].role /\ ~msgs[j].ephemeral)

\* C11 case: a final user entry, an assistant entry, and then the partial of
\* the next utterance, which replaced an earlier partial.
C11_Witness ==
    /\ Len(msgs) = 3
    /\ msgs[1].role = "user" /\ ~msgs[1].ephemeral
    /\ msgs[2].role = "assistant"
    /\ msgs[3].role = "user" /\ msgs[3].ephemeral /\ msgs[3].text = <<"hi there">>

----------------------------------------------------------------------------
(* Properties of connect attempts and their settlement *)

\* C12: after the transport reports Ready, Connected or Disconnected, or emits
\* an Error event, the connecting flag is false, whether or not the connect
\* call has settled.
C12_ReportClearsConnecting ==
    [][((state' # state /\ state' \in {"ready", "connected", "disconnected"})
          \/ \E message \in ErrorMessages : ErrorEvent(message))
        => ~connecting']_vars

\* C12 case: the transport has reported Connected to the only connect call,
\* which has not settled, and the flag is already false.
C12_Witness ==
    /\ state = "connected"
    /\ inflight = 1 /\ established = 0 /\ abandoned = 0
    /\ ~connecting

\* C13: a connect call makes one client call; when it fails no further client
\* call is made, the connecting flag is false, the transport state is
\* disconnected and connectedOnce is as it was.
C13_FailedAttemptEndsDisconnected ==
    [][/\ inflight' > inflight => inflight' = inflight + 1
       /\ (SettleFail \/ SettleAbandoned)
            => /\ inflight' + established' + abandoned' < inflight + established + abandoned
               /\ ~connecting'
               /\ state' = "disconnected"
               /\ connectedOnce' = connectedOnce]_vars

----------------------------------------------------------------------------
(* The waiting indicator *)

C15_AbandonedSettlementIgnored ==
    [][(abandoned' < abandoned \/ (state = "disconnected" /\ established' < established))
        => (connecting' = connecting /\ connectedOnce' = connectedOnce)]_vars

----------------------------------------------------------------------------
(* Mode switches and release gestures *)

\* C16 as stated: a switch from push to hands-free made while connected
\* leaves the mic enabled, and a switch from hands-free to push leaves the mic
\* as it was.
C16_SwitchToHandsFreeEnablesMic ==
    [][isConnectedState(state)
        => /\ (mode = "push" /\ setMode("handsfree")) => micEnabled'
           /\ (mode = "handsfree" /\ setMode("push")) => micEnabled' = micEnabled]_vars

\* C16 amended: a switch from push to hands-free made while connected leaves
\* the mic enabled unless Auto-Duck is on and the bot is talking, in which
\* case it leaves the mic disabled; a switch from hands-free to push leaves
\* the mic as it was.
C16_SwitchAppliesHandsFreePolicy ==
    [][isConnectedState(state)
        => /\ (mode = "push" /\ setMode("handsfree"))
                => micEnabled' = ~(autoDuck /\ botTalking)
           /\ (mode = "handsfree" /\ setMode("push")) => micEnabled' = micEnabled]_vars

\* C16 case: the button was held in push mode and the mode was then switched
\* to hands-free with Auto-Duck on while the bot talks.
C16_Witness ==
    /\ isConnectedState(state)
    /\ mode = "handsfree"
    /\ pressedRef
    /\ autoDuck /\ botTalking
    /\ ~micEnabled

\* C17: in push mode a release gesture made while the transport is neither
\* ready nor connected schedules no release timer (whose callback would call
\* enableMic) and changes neither the mic nor pressedRef.
C17_ReleaseWhileNotConnectedIsNoOp ==
    [][(mode = "push" /\ ~isConnectedState(state) /\ onRelease)
        => (timers' = timers /\ micEnabled' = micEnabled /\ pressedRef' = pressedRef)]_vars

----------------------------------------------------------------------------
(* Loading the session identity *)

\* C18: loading the session identity never throws and always yields a thread
\* identifier and a user identifier, also when storage is unavailable; when
\* storage works and holds both identifiers, it yields exactly the stored pair.
C18_LoadNeverFails ==
    [][useThreadAndUserId
        => /\ ~threw'
           /\ threadId' # 0 /\ userId' # 0
           /\ (storageOk /\ stored.thread # 0 /\ stored.user # 0)
                => (threadId' = stored.thread /\ userId' = stored.user)]_vars

====
